---- MODULE Spec2Model ----
(***************************************************************************)
(* Reorientation search of rocket (src/src/main.rs): the catalog of 24     *)
(* whole-cube reorientations, their cost, the bounded search dfs, the      *)
(* iterative-deepening driver iddfs and the reporting loop of main.        *)
(*                                                                         *)
(* The cube itself (cubesim's FaceletCube, PruningTable and Solver) is an  *)
(* external crate.  It is modelled here on a sub-puzzle of the 3x3x3 cube: *)
(* a state records where a fixed set of cubies currently sits, every move  *)
(* permutes positions exactly as on the full cube, and the pruning table   *)
(* is the breadth-first table make_naive_solver asks for, built over that  *)
(* sub-puzzle.                                                             *)
(***************************************************************************)
EXTENDS Integers, Sequences, FiniteSets, TLC

(***************************************************************************)
(* Bounds of the model.                                                    *)
(***************************************************************************)
\* longest algorithm read from the input
MaxLen == 3
\* largest --max-depth given on the command line
MaxMaxDepth == 2
\* largest --depth (pruning table depth) given on the command line
MaxTableDepth == 3

(***************************************************************************)
(* cubesim: moves.  A Move is <<name, variant>>; wide moves are the        *)
(* two-layer ones (Move::Rw(2, v)), the only ones display_move accepts.    *)
(***************************************************************************)
MoveVariant == {"Standard", "Double", "Inverse"}

Mv(name, variant) == <<name, variant>>

\* number of quarter turns a variant stands for
QuarterTurns(variant) ==
    CASE variant = "Standard" -> 1
      [] variant = "Double"   -> 2
      [] variant = "Inverse"  -> 3

\* quarter turn of a position about the x, y and z axes, in the direction of
\* the R, U and F face turns
RotX(p) == <<p[1], p[3], -p[2]>>
RotY(p) == <<-p[3], p[2], p[1]>>
RotZ(p) == <<p[2], -p[1], p[3]>>

RECURSIVE Rotate(_, _, _)
Rotate(axis, n, p) ==
    IF n = 0 THEN p
    ELSE Rotate(axis, n - 1,
                CASE axis = "x" -> RotX(p)
                  [] axis = "y" -> RotY(p)
                  [] axis = "z" -> RotZ(p))

\* where the cubie at position p goes under move mv
MovePosition(mv, p) ==
    LET n == QuarterTurns(mv[2])
        f == mv[1]
    IN  CASE f = "X"  -> Rotate("x", n, p)
          [] f = "Y"  -> Rotate("y", n, p)
          [] f = "Z"  -> Rotate("z", n, p)
          [] f = "R"  -> IF p[1] = 1  THEN Rotate("x", n, p) ELSE p
          [] f = "L"  -> IF p[1] = -1 THEN Rotate("x", 4 - n, p) ELSE p
          [] f = "U"  -> IF p[2] = 1  THEN Rotate("y", n, p) ELSE p
          [] f = "D"  -> IF p[2] = -1 THEN Rotate("y", 4 - n, p) ELSE p
          [] f = "F"  -> IF p[3] = 1  THEN Rotate("z", n, p) ELSE p
          [] f = "B"  -> IF p[3] = -1 THEN Rotate("z", 4 - n, p) ELSE p
          [] f = "Rw" -> IF p[1] >= 0 THEN Rotate("x", n, p) ELSE p
          [] f = "Lw" -> IF p[1] <= 0 THEN Rotate("x", 4 - n, p) ELSE p
          [] f = "Uw" -> IF p[2] >= 0 THEN Rotate("y", n, p) ELSE p
          [] f = "Dw" -> IF p[2] <= 0 THEN Rotate("y", 4 - n, p) ELSE p
          [] f = "Fw" -> IF p[3] >= 0 THEN Rotate("z", n, p) ELSE p
          [] f = "Bw" -> IF p[3] <= 0 THEN Rotate("z", 4 - n, p) ELSE p

\* the cubies a state follows: three corners and an edge, at their home places
TrackedCubies == << <<1, 1, 1>>, <<1, -1, -1>>, <<-1, 1, -1>>, <<0, 1, 1>> >>

\* FaceletCube::new(3)
NewFaceletCube == TrackedCubies

\* Cube::apply_move
apply_move(state, mv) == [i \in 1..Len(state) |-> MovePosition(mv, state[i])]

\* Cube::apply_moves
RECURSIVE apply_moves(_, _)
apply_moves(state, mvs) ==
    IF mvs = <<>> THEN state
    ELSE apply_moves(apply_move(state, Head(mvs)), Tail(mvs))

(***************************************************************************)
(* The reorientation catalog (enum Reorient).                              *)
(***************************************************************************)
\* Reorient::ALL, in declaration order; entry i+1 has discriminant i
ALL == << "None",
          "R", "L", "U", "D", "F", "B",
          "R2", "U2", "F2",
          "UF", "UR", "FR", "DF", "UL", "BR",
          "UFR", "DBL", "UFL", "DBR", "DFR", "UBL", "UBR", "DFL" >>

Reorient == {ALL[i] : i \in 1..Len(ALL)}

\* `self as u32`
Discriminant(r) == CHOOSE i \in 0..(Len(ALL) - 1) : ALL[i + 1] = r

\* Reorient::is_none
is_none(r) == r = "None"

\* Reorient::equivalent_rkt_moves
equivalent_rkt_moves(r) ==
    CASE r = "None" -> <<>>
      [] r = "R"    -> << Mv("X", "Standard") >>
      [] r = "L"    -> << Mv("X", "Inverse") >>
      [] r = "U"    -> << Mv("Y", "Standard") >>
      [] r = "D"    -> << Mv("Y", "Inverse") >>
      [] r = "F"    -> << Mv("Z", "Standard") >>
      [] r = "B"    -> << Mv("Z", "Inverse") >>
      [] r = "R2"   -> << Mv("X", "Double") >>
      [] r = "U2"   -> << Mv("Y", "Double") >>
      [] r = "F2"   -> << Mv("Z", "Double") >>
      [] r = "UF"   -> << Mv("X", "Standard"), Mv("Y", "Double") >>
      [] r = "UR"   -> << Mv("Z", "Standard"), Mv("X", "Double") >>
      [] r = "FR"   -> << Mv("Y", "Standard"), Mv("Z", "Double") >>
      [] r = "DF"   -> << Mv("X", "Standard"), Mv("Z", "Double") >>
      [] r = "UL"   -> << Mv("Z", "Standard"), Mv("Y", "Double") >>
      [] r = "BR"   -> << Mv("Y", "Standard"), Mv("X", "Double") >>
      [] r = "UFR"  -> << Mv("X", "Standard"), Mv("Y", "Standard") >>
      [] r = "DBL"  -> << Mv("Y", "Inverse"), Mv("X", "Inverse") >>
      [] r = "UFL"  -> << Mv("Z", "Standard"), Mv("Y", "Standard") >>
      [] r = "DBR"  -> << Mv("X", "Standard"), Mv("Y", "Inverse") >>
      [] r = "DFR"  -> << Mv("X", "Standard"), Mv("Z", "Standard") >>
      [] r = "UBL"  -> << Mv("Y", "Standard"), Mv("Z", "Inverse") >>
      [] r = "UBR"  -> << Mv("Y", "Standard"), Mv("X", "Standard") >>
      [] r = "DFL"  -> << Mv("Z", "Standard"), Mv("X", "Inverse") >>

(***************************************************************************)
(* make_naive_solver: the pruning table and the lower bound.               *)
(***************************************************************************)
\* move_set: every face in every variant
move_set ==
    {Mv(f, v) : f \in {"R", "L", "U", "D", "B", "F"}, v \in MoveVariant}

\* initial_states: the solved cube in each of the 24 orientations
initial_states ==
    {apply_moves(NewFaceletCube, equivalent_rkt_moves(r)) : r \in Reorient}

\* PruningTable::new: layer i+1 of the result holds the states first met
\* after i moves of the breadth-first search, for i = 0 .. depth
RECURSIVE PruningTableNew(_, _, _, _)
PruningTableNew(layers, seen, depth, moves) ==
    IF Len(layers) > depth THEN layers
    ELSE LET frontier == layers[Len(layers)]
             next == {apply_move(s, m) : s \in frontier, m \in moves} \ seen
         IN  PruningTableNew(Append(layers, next), seen \cup next, depth, moves)

\* the table of the deepest depth the model lets the user ask for; the table
\* of a smaller depth is its first depth+1 layers
pruning_table ==
    PruningTableNew(<<initial_states>>, initial_states, MaxTableDepth, move_set)

\* Solver::lower_bound at PRUNING_TABLE_DEPTH = depth: the layer of the state,
\* or depth + 1 for a state the table does not hold
lower_bound(state, depth) ==
    IF \E i \in 0..depth : state \in pruning_table[i + 1]
    THEN CHOOSE i \in 0..depth : state \in pruning_table[i + 1]
    ELSE depth + 1

(***************************************************************************)
(* dfs: the bounded search.  A solution lists the reorientations of the    *)
(* gaps last gap first.                                                    *)
(***************************************************************************)
\* vec![Reorient::None; n]
NoneVec(n) == [i \in 1..n |-> "None"]

\* concatenation of the sequences of a sequence (Vec::extend over the loop)
RECURSIVE Flatten(_)
Flatten(seqs) ==
    IF seqs = <<>> THEN <<>> ELSE Head(seqs) \o Flatten(Tail(seqs))

\* the reorient put in front of every solution instead of pushed at its end
PushAllFront(sols, r) == [i \in 1..Len(sols) |-> <<r>> \o sols[i]]

\* solution.push(reorient) on every solution of a child search
PushAll(sols, r) == [i \in 1..Len(sols) |-> Append(sols[i], r)]

\* dfs, the first test: no more reorients allowed
no_more_reorients(moves, max_reorients) ==
    Len(moves) <= 1 \/ max_reorients = 0

\* moves.len().saturating_sub(1)
\* the length of the all-identity solution without the - 1
saturating_sub_0(n) == IF n = 0 THEN 0 ELSE n

saturating_sub_1(n) == IF n = 0 THEN 0 ELSE n - 1

\* dfs, the success test of the base case
is_success(end_result, depth) == lower_bound(end_result, depth) <= 1

\* the second test without the + 1
is_pruned_no_slack(state, moves, depth) ==
    lower_bound(state, depth) > Len(moves)

\* the second test with the 1 on the wrong side
is_pruned_wrong_side(state, moves, depth) ==
    lower_bound(state, depth) + 1 > Len(moves)

\* dfs, the second test: the state is too far from solved for the moves left
is_pruned(state, moves, depth) ==
    lower_bound(state, depth) > Len(moves) + 1

\* the budget passed on whole whatever the reorient
remaining_reorients_kept(max_reorients, reorient) ==
    max_reorients - 1 + 1

\* the budget charged for the identity too
remaining_reorients_charged(max_reorients, reorient) ==
    max_reorients - 1

\* remaining_reorients = max_reorients - 1 + reorient.is_none() as usize
remaining_reorients_of(max_reorients, reorient) ==
    max_reorients - 1 + (IF is_none(reorient) THEN 1 ELSE 0)

\* the state handed to the recursive call for one reorient
reoriented(state, moves, reorient) ==
    LET new_state == apply_move(state, moves[1])
    IN  apply_moves(new_state, equivalent_rkt_moves(reorient))

RECURSIVE dfs(_, _, _, _)
dfs(state, moves, max_reorients, depth) ==
    IF no_more_reorients(moves, max_reorients)
    THEN LET end_result == apply_moves(state, moves)
         IN  IF is_success(end_result, depth)
             THEN << NoneVec(saturating_sub_1(Len(moves))) >>
             ELSE <<>>
    ELSE IF is_pruned(state, moves, depth)
    THEN <<>>
    ELSE Flatten([i \in 1..Len(ALL) |->
             PushAll(dfs(reoriented(state, moves, ALL[i]),
                         Tail(moves),
                         remaining_reorients_of(max_reorients, ALL[i]),
                         depth),
                     ALL[i])])

(***************************************************************************)
(* Display: Reorient's fmt::Display, display_move, display_move_variant.   *)
(***************************************************************************)
\* the token of a reorientation in XYZ notation
XyzToken(r) ==
    CASE r = "R"   -> "Ox"    [] r = "L"   -> "Ox'"
      [] r = "U"   -> "Oy"    [] r = "D"   -> "Oy'"
      [] r = "F"   -> "Oz"    [] r = "B"   -> "Oz'"
      [] r = "R2"  -> "Ox2"   [] r = "U2"  -> "Oy2"   [] r = "F2"  -> "Oz2"
      [] r = "UF"  -> "Oxy2"  [] r = "UR"  -> "Ozx2"  [] r = "FR"  -> "Oyz2"
      [] r = "DF"  -> "Oxz2"  [] r = "UL"  -> "Ozy2"  [] r = "BR"  -> "Oyx2"
      [] r = "UFR" -> "Oxy"   [] r = "DBL" -> "Oy'x'"
      [] r = "UFL" -> "Ozy"   [] r = "DBR" -> "Oxy'"
      [] r = "DFR" -> "Oxz"   [] r = "UBL" -> "Oyz'"
      [] r = "UBR" -> "Oyx"   [] r = "DFL" -> "Ozx'"

\* the token of a reorientation in sticker notation
StickerToken(r) ==
    CASE r = "R"   -> "23I:L"    [] r = "L"   -> "23I:R"
      [] r = "U"   -> "23I:D"    [] r = "D"   -> "23I:U"
      [] r = "F"   -> "23I:B"    [] r = "B"   -> "23I:F"
      [] r = "R2"  -> "23I:R2"   [] r = "U2"  -> "23I:U2"
      [] r = "F2"  -> "23I:F2"
      [] r = "UF"  -> "23I:UF"   [] r = "UR"  -> "23I:UR"
      [] r = "FR"  -> "23I:FR"   [] r = "DF"  -> "23I:DF"
      [] r = "UL"  -> "23I:UL"   [] r = "BR"  -> "23I:BR"
      [] r = "UFR" -> "23I:DBL"  [] r = "DBL" -> "23I:UFR"
      [] r = "UFL" -> "23I:DBR"  [] r = "DBR" -> "23I:UFL"
      [] r = "DFR" -> "23I:UBL"  [] r = "UBL" -> "23I:DFR"
      [] r = "UBR" -> "23I:DFL"  [] r = "DFL" -> "23I:UBR"

\* Reorient's Display, with s the value of STICKER_NOTATION it loads
fmt(r, s) ==
    IF r = "None" THEN " "
    ELSE " " \o (IF s THEN StickerToken(r) ELSE XyzToken(r)) \o " "

display_move_variant(v) ==
    CASE v = "Standard" -> ""
      [] v = "Double"   -> "2"
      [] v = "Inverse"  -> "'"

\* display_move; the model holds no move outside the supported ones
display_move(mv) ==
    (CASE mv[1] = "U"  -> "U"   [] mv[1] = "L"  -> "L"
       [] mv[1] = "F"  -> "F"   [] mv[1] = "R"  -> "R"
       [] mv[1] = "B"  -> "B"   [] mv[1] = "D"  -> "D"
       [] mv[1] = "Uw" -> "Uw"  [] mv[1] = "Lw" -> "Lw"
       [] mv[1] = "Fw" -> "Fw"  [] mv[1] = "Rw" -> "Rw"
       [] mv[1] = "Bw" -> "Bw"  [] mv[1] = "Dw" -> "Dw"
       [] mv[1] = "X"  -> "x"   [] mv[1] = "Y"  -> "y"
       [] mv[1] = "Z"  -> "z")
    \o display_move_variant(mv[2])

(***************************************************************************)
(* Inputs of the model.                                                    *)
(***************************************************************************)
\* the moves algorithms are written with
AlgMoves == {Mv("R", "Standard"), Mv("U", "Inverse"), Mv("Fw", "Double")}

RECURSIVE SeqsOfLen(_, _)
SeqsOfLen(S, n) ==
    IF n = 0 THEN {<<>>}
    ELSE {Append(q, e) : q \in SeqsOfLen(S, n - 1), e \in S}

\* what parse_scramble may return
Algs == UNION {SeqsOfLen(AlgMoves, n) : n \in 0..MaxLen}

\* values of --cheap-moves
CheapMoveArgs == { {}, {"xy2", "x2", "UF"} }

\* usize::MAX, the largest value --max-depth parses to, held as its residue
\* modulo the width of usize with every bit set: adding 1 to it gives 0
usize_MAX == -1

\* default_value_t of --depth and of --max-depth
DefaultDepth == 2
DefaultMaxDepth == 3

\* values of --depth: the default and the deepest table of the model
Depths == {DefaultDepth, MaxTableDepth}

\* what Args::parse may return (doc of --depth: at least 2): --all without
\* cheap moves, or the cheapest solutions with some
ArgsSet ==
    {a \in [depth : Depths, stickers : BOOLEAN, all : BOOLEAN,
            cheap_moves : CheapMoveArgs,
            max_depth : (0..MaxMaxDepth) \cup {usize_MAX}] :
         a.all = (a.cheap_moves = {})}

(***************************************************************************)
(* State.                                                                  *)
(***************************************************************************)
VARIABLES
    PRUNING_TABLE_DEPTH,  \* static AtomicI32
    STICKER_NOTATION,     \* static AtomicBool
    CHEAP_MOVES,          \* static AtomicU32
    args,                 \* main: the parsed command line
    pc,                   \* where the program is
    cube,                 \* dfs: the cube state of the call
    alg,                  \* main, iddfs: the algorithm; dfs: the moves of the call
    budget,               \* iddfs: max_reorients of the loop; dfs: of the call
    path,                 \* dfs: reorientations chosen on the way to the call
    ret,                  \* what the last call of dfs returned
    result,               \* what iddfs returned: <<reorient_count, solutions>>
    printed               \* main: the report of the last round

vars == <<PRUNING_TABLE_DEPTH, STICKER_NOTATION, CHEAP_MOVES, args, pc, cube,
          alg, budget, path, ret, result, printed>>

(***************************************************************************)
(* Reorient::cost.                                                         *)
(***************************************************************************)
RECURSIVE Pow2(_)
Pow2(n) == IF n = 0 THEN 1 ELSE 2 * Pow2(n - 1)

\* (mask >> i) & 1
Bit(mask, i) == (mask \div Pow2(i)) % 2

\* cost with the identity not excepted from the mask
cost_identity_cheap(mask, r) ==
    IF Bit(mask, Discriminant(r)) # 0 THEN 1
    ELSE CASE r = "None" -> 0
           [] r \in {"R", "L", "U", "D", "F", "B"} -> 1
           [] r \in {"R2", "U2", "F2"} -> 2
           [] r \in {"UF", "UR", "FR", "DF", "UL", "BR"} -> 3
           [] r \in {"UFR", "DBL", "UFL", "DBR", "DFR", "UBL", "UBR", "DFL"} -> 2

\* Reorient::cost, with mask the value of CHEAP_MOVES it loads
cost_of(mask, r) ==
    IF Bit(mask, Discriminant(r)) # 0 /\ r # "None" THEN 1
    ELSE CASE r = "None" -> 0
           [] r \in {"R", "L", "U", "D", "F", "B"} -> 1
           [] r \in {"R2", "U2", "F2"} -> 2
           [] r \in {"UF", "UR", "FR", "DF", "UL", "BR"} -> 3
           [] r \in {"UFR", "DBL", "UFL", "DBR", "DFR", "UBL", "UBR", "DFL"} -> 2

cost(r) == cost_of(CHEAP_MOVES, r)

(***************************************************************************)
(* iddfs.                                                                  *)
(***************************************************************************)
Min(a, b) == IF a <= b THEN a ELSE b

Reverse(s) == [i \in 1..Len(s) |-> s[Len(s) + 1 - i]]

RECURSIVE SumCost(_)
SumCost(solution) ==
    IF solution = <<>> THEN 0 ELSE cost(Head(solution)) + SumCost(Tail(solution))

\* the order in which iddfs reads a solution: solution.iter().rev()
solution_iter(solution) == Reverse(solution)

\* return_string of one solution: the first move, then for each pair of
\* solution_iter zipped with alg[1..] the reorientation and the move
RECURSIVE ZipString(_, _)
ZipString(reorients, mvs) ==
    IF reorients = <<>> \/ mvs = <<>> THEN ""
    ELSE fmt(Head(reorients), STICKER_NOTATION) \o display_move(Head(mvs))
         \o ZipString(Tail(reorients), Tail(mvs))

return_string(solution, mvs) ==
    display_move(mvs[1]) \o ZipString(solution_iter(solution), Tail(mvs))

\* the closure mapped over ret: (cost, return_string)
Solutions(r, mvs) ==
    [i \in 1..Len(r) |-> <<SumCost(r[i]), return_string(r[i], mvs)>>]

\* the first test with the one-move algorithm sent to the search
is_degenerate_empty_only(mvs) == Len(mvs) < 1

\* iddfs, the first test: nothing to search
is_degenerate(mvs) == Len(mvs) <= 1

\* max_depth + 1 overflows usize
add_1_overflows(n) == n = usize_MAX

\* max_depth + 1 in a build without overflow checks
wrapping_add_1(n) == IF add_1_overflows(n) THEN 0 ELSE n + 1

\* the range of the loop read as inclusive of its end
LoopEndInclusive(mvs, max_depth) ==
    Min(Len(mvs), wrapping_add_1(max_depth)) + 1

\* the budgets the loop of iddfs runs through are 0 .. LoopEnd - 1
LoopEnd(mvs, max_depth) == Min(Len(mvs), wrapping_add_1(max_depth))

(***************************************************************************)
(* main.                                                                   *)
(***************************************************************************)
\* cheap_move_set_mask; to_string loads STICKER_NOTATION before main stores it
cheap_move_set_mask(cheap_moves) ==
    LET cheap_move_set == {" O" \o s \o " " : s \in cheap_moves}
        bit(i) == IF fmt(ALL[i + 1], STICKER_NOTATION) \in cheap_move_set
                  THEN Pow2(i) ELSE 0
        sum[i \in 0..Len(ALL)] == IF i = 0 THEN 0 ELSE sum[i - 1] + bit(i - 1)
    IN  sum[Len(ALL)]

RECURSIVE MinCost(_)
MinCost(solutions) ==
    IF Len(solutions) = 1 THEN solutions[1][1]
    ELSE Min(solutions[1][1], MinCost(Tail(solutions)))

\* solutions.retain(|(cost, _)| *cost == min_cost)
Retain(solutions, min_cost) ==
    SelectSeq(solutions, LAMBDA e : e[1] = min_cost)

\* the lines main prints for one algorithm
ReportOf(algorithm, reorient_count, solutions) ==
    IF Len(solutions) = 0
    THEN [found |-> 0, reorients |-> 0, stm |-> 0, good |-> 0, min_cost |-> 0,
          lines |-> <<>>]
    ELSE LET kept == IF args.all THEN solutions
                     ELSE Retain(solutions, MinCost(solutions))
         IN  [found |-> Len(solutions), reorients |-> reorient_count,
              stm |-> Len(algorithm) + reorient_count,
              good |-> IF args.all THEN 0 ELSE Len(kept),
              min_cost |-> IF args.all THEN 0 ELSE MinCost(solutions),
              lines |-> [i \in 1..Len(kept) |-> kept[i][2]]]

NoReport ==
    [found |-> 0, reorients |-> 0, stm |-> 0, good |-> 0, min_cost |-> 0,
     lines |-> <<>>]

\* the statics as declared, the command line parsed
Init ==
    /\ PRUNING_TABLE_DEPTH = 0
    /\ STICKER_NOTATION = FALSE
    /\ CHEAP_MOVES = 0
    /\ args \in ArgsSet
    /\ pc = "main"
    /\ cube = NewFaceletCube
    /\ alg = <<>>
    /\ budget = 0
    /\ path = <<>>
    /\ ret = <<>>
    /\ result = <<0, <<>>>>
    /\ printed = NoReport

\* main up to "Ready!": store the configuration, build the solver
Configure ==
    /\ pc = "main"
    /\ CHEAP_MOVES' = cheap_move_set_mask(args.cheap_moves)
    /\ PRUNING_TABLE_DEPTH' = args.depth
    /\ STICKER_NOTATION' = args.stickers
    /\ pc' = "loop"
    /\ UNCHANGED <<args, cube, alg, budget, path, ret, result, printed>>

\* top of the loop of main: a fresh alg_string, the prompt
Prompt ==
    /\ pc = "loop"
    /\ pc' = "prompt"
    /\ alg' = <<>>
    /\ budget' = 0
    /\ ret' = <<>>
    /\ result' = <<0, <<>>>>
    /\ printed' = NoReport
    /\ UNCHANGED <<PRUNING_TABLE_DEPTH, STICKER_NOTATION, CHEAP_MOVES, args,
                   cube, path>>

\* read_line returns a line: parse it and enter iddfs
ReadAlg(parsed) ==
    /\ pc = "prompt"
    /\ alg' = parsed
    /\ pc' = "iddfs"
    /\ UNCHANGED <<PRUNING_TABLE_DEPTH, STICKER_NOTATION, CHEAP_MOVES, args,
                   cube, budget, path, ret, result, printed>>

\* read_line returns Ok(0): exit(0)
ReadEof ==
    /\ pc = "prompt"
    /\ pc' = "exit"
    /\ UNCHANGED <<PRUNING_TABLE_DEPTH, STICKER_NOTATION, CHEAP_MOVES, args,
                   cube, alg, budget, path, ret, result, printed>>

\* iddfs, moves.len() <= 1
IddfsDegenerate ==
    /\ pc = "iddfs"
    /\ is_degenerate(alg)
    /\ result' = <<0, << <<0, IF alg = <<>> THEN ""
                              ELSE display_move(alg[1])>> >> >>
    /\ pc' = "report"
    /\ UNCHANGED <<PRUNING_TABLE_DEPTH, STICKER_NOTATION, CHEAP_MOVES, args,
                   cube, alg, budget, path, ret, printed>>

\* iddfs in a build with overflow checks: max_depth + 1 panics
IddfsOverflow ==
    /\ pc = "iddfs"
    /\ ~is_degenerate(alg)
    /\ add_1_overflows(args.max_depth)
    /\ pc' = "panic"
    /\ UNCHANGED <<PRUNING_TABLE_DEPTH, STICKER_NOTATION, CHEAP_MOVES, args,
                   cube, alg, budget, path, ret, result, printed>>

\* one turn of the loop of iddfs
IddfsSearch ==
    /\ pc = "iddfs"
    /\ ~is_degenerate(alg)
    /\ budget < LoopEnd(alg, args.max_depth)
    /\ ret' = dfs(NewFaceletCube, alg, budget, PRUNING_TABLE_DEPTH)
    /\ IF ret' # <<>>
       THEN /\ result' = <<budget, Solutions(ret', alg)>>
            /\ pc' = "report"
            /\ UNCHANGED budget
       ELSE /\ budget' = budget + 1
            /\ UNCHANGED <<result, pc>>
    /\ UNCHANGED <<PRUNING_TABLE_DEPTH, STICKER_NOTATION, CHEAP_MOVES, args,
                   cube, alg, path, printed>>

\* the loop of iddfs ran out of budgets
IddfsExhausted ==
    /\ pc = "iddfs"
    /\ ~is_degenerate(alg)
    /\ budget >= LoopEnd(alg, args.max_depth)
    /\ result' = <<0, <<>>>>
    /\ pc' = "report"
    /\ UNCHANGED <<PRUNING_TABLE_DEPTH, STICKER_NOTATION, CHEAP_MOVES, args,
                   cube, alg, budget, path, ret, printed>>

\* main reports what iddfs returned
Report ==
    /\ pc = "report"
    /\ printed' = ReportOf(alg, result[1], result[2])
    /\ pc' = "loop"
    /\ UNCHANGED <<PRUNING_TABLE_DEPTH, STICKER_NOTATION, CHEAP_MOVES, args,
                   cube, alg, budget, path, ret, result>>

Next ==
    \/ Configure
    \/ Prompt
    \/ \E parsed \in Algs : ReadAlg(parsed)
    \/ ReadEof
    \/ IddfsDegenerate
    \/ IddfsOverflow
    \/ IddfsSearch
    \/ IddfsExhausted
    \/ Report

Spec == Init /\ [][Next]_vars

(***************************************************************************)
(* The cost configuration on its own: every small set of names given to    *)
(* --cheap-moves, and one algorithm whose solutions are costed.            *)
(***************************************************************************)
\* most names given to --cheap-moves
MaxCheapMoves == 2

\* the names a user may give: those of the 23 reorientations in XYZ notation,
\* one in sticker notation and an empty one
CheapNames ==
    {"x", "x'", "y", "y'", "z", "z'", "x2", "y2", "z2",
     "xy2", "zx2", "yz2", "xz2", "zy2", "yx2",
     "xy", "y'x'", "zy", "xy'", "xz", "yz'", "yx", "zx'",
     "UF", ""}

RECURSIVE SubsetsUpTo(_, _)
SubsetsUpTo(S, n) ==
    IF n = 0 THEN {{}}
    ELSE LET smaller == SubsetsUpTo(S, n - 1)
         IN  smaller \cup {s \cup {e} : s \in smaller, e \in S}

CostAlgs == { << Mv("R", "Standard"), Mv("U", "Inverse") >> }

InitCost ==
    /\ PRUNING_TABLE_DEPTH = 0
    /\ STICKER_NOTATION = FALSE
    /\ CHEAP_MOVES = 0
    /\ args \in [depth : {DefaultDepth}, stickers : {FALSE}, all : {TRUE},
                 cheap_moves : SubsetsUpTo(CheapNames, MaxCheapMoves),
                 max_depth : {DefaultMaxDepth}]
    /\ pc = "main"
    /\ cube = NewFaceletCube
    /\ alg = <<>>
    /\ budget = 0
    /\ path = <<>>
    /\ ret = <<>>
    /\ result = <<0, <<>>>>
    /\ printed = NoReport

NextCost ==
    \/ Configure
    \/ Prompt
    \/ \E parsed \in CostAlgs : ReadAlg(parsed)
    \/ IddfsSearch
    \/ Report

SpecCost == InitCost /\ [][NextCost]_vars

(***************************************************************************)
(* The bounded search on its own: a call of dfs somewhere in the tree of   *)
(* calls, and the recursive calls it makes.                                *)
(***************************************************************************)
\* largest budget of a call
MaxBudget == 2

\* moves done before the call: none (the call iddfs makes), or a prefix that
\* leaves the cube 2, 3 and 4 moves from solved
Scrambles ==
    { <<>>,
      << Mv("L", "Inverse"), Mv("F", "Standard") >>,
      << Mv("R", "Inverse"), Mv("D", "Standard"), Mv("F", "Double") >>,
      << Mv("R", "Standard"), Mv("U", "Inverse"), Mv("R", "Standard"),
         Mv("U", "Double") >> }

StartStates == {apply_moves(NewFaceletCube, sc) : sc \in Scrambles}

\* the algorithms the calls are cut from
BaseAlgs ==
    { << Mv("R", "Standard"), Mv("Fw", "Double"), Mv("R", "Standard") >>,
      << Mv("R", "Standard"), Mv("R", "Standard"), Mv("R", "Standard") >>,
      << Mv("U", "Inverse"), Mv("Fw", "Double"), Mv("R", "Standard") >>,
      << Mv("Fw", "Double"), Mv("U", "Inverse"), Mv("Fw", "Double") >> }

\* the moves left to a call: any stretch of one of them, or none
DfsAlgs ==
    {<<>>} \cup
    UNION {{SubSeq(a, i, j) : i \in 1..Len(a), j \in 1..Len(a)} : a \in BaseAlgs}

InitDfs ==
    /\ PRUNING_TABLE_DEPTH \in Depths
    /\ STICKER_NOTATION \in BOOLEAN
    /\ CHEAP_MOVES = 0
    /\ args = [depth |-> PRUNING_TABLE_DEPTH, stickers |-> STICKER_NOTATION,
               all |-> FALSE, cheap_moves |-> {}, max_depth |-> DefaultMaxDepth]
    /\ pc = "dfs"
    /\ cube \in StartStates
    /\ alg \in DfsAlgs
    /\ budget \in 0..MaxBudget
    /\ path = <<>>
    /\ ret = dfs(cube, alg, budget, PRUNING_TABLE_DEPTH)
    /\ result = <<0, <<>>>>
    /\ printed = NoReport

\* dfs calls itself for one reorient of the loop
DfsRecurse(r) ==
    /\ pc = "dfs"
    /\ ~no_more_reorients(alg, budget)
    /\ ~is_pruned(cube, alg, PRUNING_TABLE_DEPTH)
    /\ cube' = reoriented(cube, alg, r)
    /\ alg' = Tail(alg)
    /\ budget' = remaining_reorients_of(budget, r)
    /\ path' = Append(path, r)
    /\ ret' = dfs(cube', alg', budget', PRUNING_TABLE_DEPTH)
    /\ UNCHANGED <<PRUNING_TABLE_DEPTH, STICKER_NOTATION, CHEAP_MOVES, args, pc,
                   result, printed>>

NextDfs == \E r \in Reorient : DfsRecurse(r)

SpecDfs == InitDfs /\ [][NextDfs]_vars

(***************************************************************************)
(* Operators the properties are stated with.  None of them is used by the  *)
(* model above.                                                            *)
(***************************************************************************)
\* how many entries of a solution are not the identity
NonIdentityCount(s) == Cardinality({i \in DOMAIN s : s[i] # "None"})

\* the number of gaps between n moves
Gaps(n) == IF n <= 1 THEN 0 ELSE n - 1

\* moves with the rotations of f[i] written into gap i
RECURSIVE Interleaved(_, _)
Interleaved(moves, f) ==
    IF Len(moves) <= 1 THEN moves
    ELSE Interleaved(SubSeq(moves, 1, Len(moves) - 1), SubSeq(f, 1, Len(f) - 1))
         \o equivalent_rkt_moves(f[Len(f)]) \o << moves[Len(moves)] >>

\* the state reached from state0 by moves with f in the gaps
EndState(state0, moves, f) == apply_moves(state0, Interleaved(moves, f))

\* every choice of a reorientation per gap with at most k non-identity ones
Assignments(gaps, k) ==
    {f \in [1..gaps -> Reorient] : NonIdentityCount(f) <= k}

\* the text of the moves algorithms are written with
MoveText(mv) ==
    CASE mv = Mv("R", "Standard") -> "R"
      [] mv = Mv("U", "Inverse")  -> "U'"
      [] mv = Mv("Fw", "Double")  -> "Fw2"

\* display(m1) + str(r1) + display(m2) + ... + display(mn)
RECURSIVE Joined(_, _, _)
Joined(moves, f, s) ==
    IF Len(moves) = 1 THEN MoveText(moves[1])
    ELSE Joined(SubSeq(moves, 1, Len(moves) - 1), SubSeq(f, 1, Len(f) - 1), s)
         \o fmt(f[Len(f)], s) \o MoveText(moves[Len(moves)])

\* min(n, max_depth + 1) of the integers
BudgetsEnd(n, max_depth) ==
    IF max_depth = usize_MAX THEN n ELSE Min(n, max_depth + 1)

\* dfs from the solved cube, as iddfs calls it
SolvedDfs(k) == dfs(NewFaceletCube, alg, k, PRUNING_TABLE_DEPTH)

(***************************************************************************)
(* Properties of iddfs and main, checked under Spec.                       *)
(***************************************************************************)
\* C1: when iddfs returns a non-empty list for an algorithm of n >= 2 moves,
\* the count it returns is the least budget b in 0 .. min(n, max_depth + 1) - 1
\* at which dfs from the solved cube is non-empty, and the list holds one
\* (cost, display) entry per solution of dfs at b, in the order of dfs.
IddfsReturnsLeastBudget ==
    (pc = "report" /\ Len(alg) >= 2 /\ result[2] # <<>>) =>
        LET b == result[1]
            found == SolvedDfs(b)
        IN  /\ b \in 0..(BudgetsEnd(Len(alg), args.max_depth) - 1)
            /\ found # <<>>
            /\ \A k \in 0..(b - 1) : SolvedDfs(k) = <<>>
            /\ Len(result[2]) = Len(found)
            /\ \A i \in 1..Len(found) :
                   /\ result[2][i][1] = SumCost(found[i])
                   /\ result[2][i][2] =
                          Joined(alg, Reverse(found[i]), STICKER_NOTATION)

\* iddfs has returned solutions it found at budget 2, after budgets 0 and 1
IddfsReturnsLeastBudgetWitness ==
    /\ pc = "report"
    /\ Len(alg) >= 2
    /\ result[1] = 2
    /\ result[2] # <<>>
    /\ budget = 2

\* C4: for an algorithm of length 0 or 1 iddfs returns the count 0 and one
\* solution of cost 0 whose display is the move's own (empty for no move),
\* whatever max_depth is, and dfs has not been called.
DegenerateAlgorithm ==
    (pc = "report" /\ Len(alg) <= 1) =>
        /\ result = <<0, << <<0, IF alg = <<>> THEN "" ELSE MoveText(alg[1])>> >> >>
        /\ ret = <<>>
        /\ budget = 0

\* iddfs has returned for an algorithm of one move
DegenerateAlgorithmWitness ==
    /\ pc = "report"
    /\ Len(alg) = 1
    /\ result[1] = 0
    /\ Len(result[2]) = 1

\* C5: for an algorithm of n >= 2 moves iddfs does not fault, and it returns
\* an empty list exactly when dfs from the solved cube is empty at every
\* budget in 0 .. min(n, max_depth + 1) - 1, the count then being 0.
NoSolutionOutcome ==
    /\ pc # "panic"
    /\ (pc = "report" /\ Len(alg) >= 2) =>
           /\ (result[2] = <<>>) <=>
                  (\A k \in 0..(BudgetsEnd(Len(alg), args.max_depth) - 1) :
                       SolvedDfs(k) = <<>>)
           /\ (result[2] = <<>>) => (result[1] = 0)

\* C10: every solution iddfs returns has exactly reorient_count entries that
\* are not the identity, so that the STM main prints, alg.len() +
\* reorient_count, is the number of moves and reorientations of each one.
ExactReorientCount ==
    /\ (pc \in {"report", "loop"} /\ Len(alg) >= 2 /\ result[2] # <<>>) =>
           /\ Len(ret) = Len(result[2])
           /\ \A i \in 1..Len(ret) : NonIdentityCount(ret[i]) = result[1]
    /\ (pc = "loop" /\ result[2] # <<>>) =>
           /\ printed.found = Len(result[2])
           /\ printed.reorients = result[1]
           /\ Len(alg) >= 2 =>
                  \A i \in 1..Len(ret) :
                      printed.stm = Len(alg) + NonIdentityCount(ret[i])
           /\ Len(alg) <= 1 => printed.stm = Len(alg)

\* main has printed several solutions of three moves and one reorientation
ExactReorientCountWitness ==
    /\ pc = "loop"
    /\ Len(alg) = 3
    /\ printed.found >= 2
    /\ printed.reorients = 1
    /\ printed.stm = 4

DfsSound ==
    pc = "dfs" =>
        \A i \in 1..Len(ret) :
            /\ Len(ret[i]) = Gaps(Len(alg))
            /\ lower_bound(EndState(cube, alg, Reverse(ret[i])),
                           PRUNING_TABLE_DEPTH) <= 1

\* dfs returns a solution of two different reorientations that is no
\* solution when read in the order dfs stores it
DfsSoundWitness ==
    /\ pc = "dfs"
    /\ Len(alg) = 3
    /\ \E i \in 1..Len(ret) :
           /\ ret[i][1] # "None"
           /\ ret[i][2] # "None"
           /\ ret[i][1] # ret[i][2]
           /\ lower_bound(EndState(cube, alg, ret[i]), PRUNING_TABLE_DEPTH) > 1

\* C7: every solution dfs returns for n moves has n - 1 entries, 0 when
\* n <= 1, and the display iddfs builds of it is the moves in their order
\* with the token of one reorientation between each two.
SolutionLength ==
    pc = "dfs" =>
        /\ \A i \in 1..Len(ret) :
               Len(ret[i]) = (IF Len(alg) <= 1 THEN 0 ELSE Len(alg) - 1)
        /\ Len(alg) >= 2 =>
               \A i \in 1..Len(ret) :
                   Solutions(ret, alg)[i][2] =
                       Joined(alg, Reverse(ret[i]), STICKER_NOTATION)

\* dfs returns for three moves a solution with a reorientation in the first
\* gap only, displayed in sticker notation
SolutionLengthWitness ==
    /\ pc = "dfs"
    /\ Len(alg) = 3
    /\ STICKER_NOTATION
    /\ \E i \in 1..Len(ret) : ret[i][2] # "None" /\ ret[i][1] = "None"

\* C8: the budget of a call is never negative, it is the budget of the first
\* call less the reorientations chosen since that are not the identity, and
\* no solution the call returns has more non-identity entries than it.
BudgetAccounting ==
    pc = "dfs" =>
        /\ budget \in 0..MaxBudget
        /\ budget + NonIdentityCount(path) <= MaxBudget
        /\ \A i \in 1..Len(ret) : NonIdentityCount(ret[i]) <= budget

\* a call with two moves left and the budget spent on the way returns the
\* identity for the gap left
BudgetAccountingWitness ==
    /\ pc = "dfs"
    /\ NonIdentityCount(path) >= 1
    /\ budget = 0
    /\ Len(alg) = 2
    /\ ret = << <<"None">> >>

\* C9: dfs returns, each once, the reorientation sequences of length n - 1
\* with at most budget non-identity entries whose interleaved application
\* ends with lower bound <= 1, which is what the search without the prune
\* branch returns; where the prune test holds there is none.
PruningRemovesNoSolution ==
    pc = "dfs" =>
        LET expected ==
                {f \in Assignments(Gaps(Len(alg)), budget) :
                     lower_bound(EndState(cube, alg, f), PRUNING_TABLE_DEPTH) <= 1}
        IN  /\ {Reverse(ret[i]) : i \in 1..Len(ret)} = expected
            /\ Len(ret) = Cardinality(expected)
            /\ lower_bound(cube, PRUNING_TABLE_DEPTH) > Len(alg) + 1 =>
                   /\ expected = {}
                   /\ Assignments(Gaps(Len(alg)), Len(alg)) \cap
                          {f \in [1..Gaps(Len(alg)) -> Reorient] :
                               lower_bound(EndState(cube, alg, f),
                                           PRUNING_TABLE_DEPTH) <= 1} = {}

\* a call with budget and moves left takes the prune branch
PruningRemovesNoSolutionWitness ==
    /\ pc = "dfs"
    /\ Len(alg) >= 2
    /\ budget >= 1
    /\ lower_bound(cube, PRUNING_TABLE_DEPTH) > Len(alg) + 1
    /\ ret = <<>>

(***************************************************************************)
(* Properties of Reorient::cost, checked under SpecCost.                   *)
(***************************************************************************)
\* the six face centres
Centres ==
    { <<1, 0, 0>>, <<-1, 0, 0>>, <<0, 1, 0>>, <<0, -1, 0>>, <<0, 0, 1>>,
      <<0, 0, -1>> }

\* where the rotations mvs take position p
RECURSIVE Turned(_, _)
Turned(mvs, p) ==
    IF mvs = <<>> THEN p ELSE Turned(Tail(mvs), MovePosition(Head(mvs), p))

\* where a reorientation done n times takes position p
RECURSIVE TurnedTimes(_, _, _)
TurnedTimes(r, n, p) ==
    IF n = 0 THEN p
    ELSE TurnedTimes(r, n - 1, Turned(equivalent_rkt_moves(r), p))

\* the least number of times a reorientation is done to do nothing
Order(r) ==
    CHOOSE n \in 1..4 :
        /\ \A c \in Centres : TurnedTimes(r, n, c) = c
        /\ \A m \in 1..(n - 1) : \E c \in Centres : TurnedTimes(r, m, c) # c

\* the face centres a reorientation leaves in place
FixedCentres(r) == {c \in Centres : TurnedTimes(r, 1, c) = c}

\* the base cost by the kind of rotation: identity 0, quarter turn about a
\* face axis 1, half turn about a face axis 2, half turn about an edge axis 3,
\* turn about a corner axis 2
BaseCost ==
    [r \in Reorient |->
        CASE Order(r) = 1 -> 0
          [] Order(r) = 4 -> 1
          [] Order(r) = 2 /\ FixedCentres(r) # {} -> 2
          [] Order(r) = 2 /\ FixedCentres(r) = {} -> 3
          [] Order(r) = 3 -> 2]

\* bit i of mask is set
InMask(mask, i) == mask % Pow2(i + 1) >= Pow2(i)

\* the mask with the bit of the identity set as well
WithIdentityBit(mask) == IF mask % 2 = 0 THEN mask + 1 ELSE mask

\* 1 for a reorientation marked in mask that is not the identity, else the
\* base cost
EffectiveCostOf(mask, r) ==
    IF r # "None" /\ InMask(mask, Discriminant(r)) THEN 1 ELSE BaseCost[r]

RECURSIVE TotalEffectiveCost(_, _)
TotalEffectiveCost(mask, s) ==
    IF s = <<>> THEN 0
    ELSE EffectiveCostOf(mask, s[Len(s)])
         + TotalEffectiveCost(mask, SubSeq(s, 1, Len(s) - 1))

\* C6: for each of the 24 reorientations, under the mask main stored and
\* under that mask with the bit of the identity set too, cost is 1 if the
\* reorientation is not the identity and its bit is set, else its base cost;
\* the identity costs 0, a reorientation marked cheap costs 1 and no more
\* than its base cost, and the cost iddfs reports is the sum of these.
EffectiveCost ==
    /\ \A mask \in {CHEAP_MOVES, WithIdentityBit(CHEAP_MOVES)} :
           /\ cost_of(mask, "None") = 0
           /\ \A r \in Reorient :
                  /\ cost_of(mask, r) = EffectiveCostOf(mask, r)
                  /\ (r # "None" /\ InMask(mask, Discriminant(r))) =>
                         (cost_of(mask, r) = 1 /\ 1 <= BaseCost[r])
    /\ \A r \in Reorient : cost(r) = EffectiveCostOf(CHEAP_MOVES, r)
    /\ (pc = "report" /\ Len(alg) >= 2) =>
           \A i \in 1..Len(ret) :
               result[2][i][1] = TotalEffectiveCost(CHEAP_MOVES, ret[i])

\* iddfs reports a solution at cost 1 whose reorientation has a base cost
\* above 1 and was marked cheap
EffectiveCostWitness ==
    /\ pc = "report"
    /\ CHEAP_MOVES # 0
    /\ \E i \in 1..Len(ret) :
           /\ result[2][i][1] = 1
           /\ \E j \in 1..Len(ret[i]) : BaseCost[ret[i][j]] > 1

====
